---- MODULE Spec2Model ----
(***************************************************************************)
(* A model of the dsent entity session (DSEnt[T]) over a transactional     *)
(* key-value store: the key codec (BuildKey, cmpKey), the single and batch *)
(* CRUD operations, the read-modify-write Update protocol, and the         *)
(* package's registry of kind names (RegisterKind).                        *)
(*                                                                         *)
(* The entity type is the test suite's exampleObj, restricted to the       *)
(* fields ID, RealData, DelegatedData and LoadedKey.  The store client     *)
(* (cloud.google.com/go/datastore) is an external collaborator; it is      *)
(* modelled by the contract of spec section 6: point lookups, insert /     *)
(* update / upsert / delete mutations, and transactions whose mutations    *)
(* are queued and applied atomically on commit, with conflict detection on *)
(* the keys the transaction has read.                                      *)
(*                                                                         *)
(* Specifications: Spec (two callers: Update, Put, Delete), SpecCrud (one  *)
(* caller: the single and batch operations), SpecTx (UpdateTx calls in a   *)
(* transaction of the caller), SpecHook (batch writes of entities whose    *)
(* LoadKey may fail), SpecCounter (concurrent increments, with a tally of  *)
(* the calls that returned no error), SpecKey (cmpKey), SpecNS (key        *)
(* derivation for entities with ancestors), SpecBadKey (every operation on *)
(* entities whose BuildKey may fail) and SpecKinds (goroutines calling     *)
(* RegisterKind).                                                          *)
(***************************************************************************)
EXTENDS Integers, Sequences, FiniteSets, TLC

\* ------------------------------------------------------------------ bounds
MaxID == 2
MaxVal == 1
MaxBatch == 2
MaxDepth == 2
MaxCalls == 4
MaxTxOps == 2
MaxGo == 2
MaxRegs == 4

IDs == 1..MaxID
Vals == 0..MaxVal
Procs == {"A", "B"}

\* --------------------------------------------------------------- constants
namespace == "Test"
Nil == "nil"
ErrKeyChanged == "ErrKeyChanged"
ErrNotFound == "ErrNoSuchEntity"
ErrConcurrentTransaction == "ErrConcurrentTransaction"
ErrUpdateAbort == "ErrUpdateAbort"
ErrAlreadyExists == "AlreadyExists"
StatusNotFound == "NotFound"
MultiError == "MultiError"
customError == "customError"

\* ---------------------------------------------------------------- helpers
Range(s) == {s[i] : i \in 1..Len(s)}

\* the sequences over S of length 1..n
SeqOfSet(S, n) == UNION {[1..m -> S] : m \in 1..n}

\* --------------------------------------------------------------- key codec
\* A key is its chain of levels, leaf first; Parent is the tail of the chain
\* and the empty chain is the nil parent.
Level(ns, kind, id, name) ==
    [Namespace |-> ns, Kind |-> kind, ID |-> id, Name |-> name]

IDKey(kind, id, parent) == <<Level("", kind, id, "")>> \o parent

Parent(key) == Tail(key)

\* key.Namespace = ns (the leaf only)
WithNamespace(key, ns) == <<[key[1] EXCEPT !.Namespace = ns]>> \o Tail(key)

\* SetNS stamps ns on the key and on every parent
SetNS(key, ns) == [i \in 1..Len(key) |-> [key[i] EXCEPT !.Namespace = ns]]

RECURSIVE cmpKeyLoop(_, _)
cmpKeyLoop(left, right) ==
    IF left[1].Namespace # right[1].Namespace THEN FALSE
    ELSE IF left[1].Kind # right[1].Kind THEN FALSE
    ELSE IF left[1].ID # right[1].ID THEN FALSE
    ELSE IF left[1].Name # right[1].Name THEN FALSE
    ELSE IF Parent(left) = <<>> THEN Parent(right) = <<>>
    ELSE IF Parent(right) = <<>> THEN FALSE
    ELSE cmpKeyLoop(Parent(left), Parent(right))

\* a bug: the walk stops, equal, as soon as the left chain ends
RECURSIVE cmpKeyLeftOnly(_, _)
cmpKeyLeftOnly(left, right) ==
    IF left[1].Namespace # right[1].Namespace THEN FALSE
    ELSE IF left[1].Kind # right[1].Kind THEN FALSE
    ELSE IF left[1].ID # right[1].ID THEN FALSE
    ELSE IF left[1].Name # right[1].Name THEN FALSE
    ELSE IF Parent(left) = <<>> THEN TRUE
    ELSE IF Parent(right) = <<>> THEN FALSE
    ELSE cmpKeyLeftOnly(Parent(left), Parent(right))

cmpKey(a, b) == cmpKeyLoop(a, b)

\* ------------------------------------------------------------------ entity
\* exampleObj: ID is the identity, RealData the payload the caller sets,
\* DelegatedData the persisted copy of it, LoadedKey what LoadKey stored.
ExampleObj(id, real) ==
    [ID |-> id, RealData |-> real, DelegatedData |-> 0, LoadedKey |-> 0,
     KeyLoader |-> "ok", KeyBuilder |-> "ok"]

\* an entity of a type whose LoadKey behaves as hook says: "ok" as
\* exampleObj's, "fail" returning an error and storing nothing
HookObj(id, real, hook) == [ExampleObj(id, real) EXCEPT !.KeyLoader = hook]

Hooks == {"ok", "fail"}

\* the error the failing LoadKey of x returns
LoadKeyError(x) == "LoadKey failed for " \o ToString(x.ID)

ZeroObj == ExampleObj(0, 0)

BuildKey(x, ns) == WithNamespace(IDKey("Test", x.ID, <<>>), ns)

\* an entity of a type whose BuildKey behaves as rule says: "ok" as
\* exampleObj's, "fail" returning an error, "multi" returning a
\* datastore.MultiError that holds that error, "empty" returning a
\* datastore.MultiError that holds none, "low" returning an error for the
\* entity of ID 1 and a key for any other
KeyObj(id, real, rule) == [ExampleObj(id, real) EXCEPT !.KeyBuilder = rule]

KeyBuilders == {"ok", "fail", "multi", "empty", "low"}

KeyError(id) == "BuildKey failed for " \o ToString(id)
MultiOf(err) == "MultiError{" \o err \o "}"
EmptyMulti == "MultiError{}"
IndexPanic == "panic: index out of range [0] with length 0"

\* the error BuildKey of x returns, Nil when it returns a key
BuildKeyErr(x) ==
    CASE x.KeyBuilder = "ok"    -> Nil
      [] x.KeyBuilder = "fail"  -> KeyError(x.ID)
      [] x.KeyBuilder = "multi" -> MultiOf(KeyError(x.ID))
      [] x.KeyBuilder = "empty" -> EmptyMulti
      [] x.KeyBuilder = "low"   -> IF x.ID = 1 THEN KeyError(x.ID) ELSE Nil

\* if merr, ok := err.(datastore.MultiError); ok { err = merr[0] }
FirstOfMulti(err) ==
    IF err = EmptyMulti THEN IndexPanic
    ELSE IF \E id \in 0..MaxID : err = MultiOf(KeyError(id))
    THEN KeyError(CHOOSE id \in 0..MaxID : err = MultiOf(KeyError(id)))
    ELSE err

\* Save copies RealData into DelegatedData, in place, and emits the persisted
\* properties.
SaveObj(x) == [x EXCEPT !.DelegatedData = x.RealData]

SaveProps(x) == [id |-> x.ID, delegated_data |-> SaveObj(x).DelegatedData]

\* Load fills the persisted fields and restores RealData from DelegatedData.
Load(x, ps) ==
    [x EXCEPT !.ID = ps.id,
              !.DelegatedData = ps.delegated_data,
              !.RealData = ps.delegated_data]

LoadKey(x, k) ==
    IF x.KeyLoader = "fail" THEN [obj |-> x, err |-> LoadKeyError(x)]
    ELSE [obj |-> [x EXCEPT !.LoadedKey = k[1].ID], err |-> Nil]

\* ResolveKey: the entity implements KeyLoader; the error of its LoadKey is
\* returned.
ResolveKey(key, obj) ==
    LET r == LoadKey(obj, key)
    IN IF r.err # Nil THEN [obj |-> r.obj, err |-> r.err]
       ELSE [obj |-> r.obj, err |-> Nil]

Keys == {BuildKey(ExampleObj(id, 0), namespace) : id \in IDs}

PropsSet == [id : IDs, delegated_data : Vals]

\* ------------------------------------------------------- store (external)
\* The store is a partial function from keys to persisted properties.
Mutation(op, key, obj) == [op |-> op, key |-> key, props |-> SaveProps(obj)]

NewInsert(key, obj) == Mutation("insert", key, obj)
NewUpdate(key, obj) == Mutation("update", key, obj)
NewUpsert(key, obj) == Mutation("upsert", key, obj)
NewDelete(key) == [op |-> "delete", key |-> key, props |-> [id |-> 0, delegated_data |-> 0]]

ApplyOne(st, m) ==
    IF m.op = "delete"
    THEN [k \in DOMAIN st \ {m.key} |-> st[k]]
    ELSE [k \in DOMAIN st \cup {m.key} |-> IF k = m.key THEN m.props ELSE st[k]]

RECURSIVE ApplyMuts(_, _)
ApplyMuts(st, muts) ==
    IF muts = <<>> THEN [store |-> st, err |-> Nil]
    ELSE LET m == Head(muts) IN
         IF m.op = "insert" /\ m.key \in DOMAIN st
         THEN [store |-> st, err |-> ErrAlreadyExists]
         ELSE IF m.op = "update" /\ m.key \notin DOMAIN st
         THEN [store |-> st, err |-> StatusNotFound]
         ELSE ApplyMuts(ApplyOne(st, m), Tail(muts))

\* mutate: all the mutations are applied, or none is and the error is returned
Mutate(st, muts) ==
    LET r == ApplyMuts(st, muts)
    IN IF r.err = Nil THEN r ELSE [store |-> st, err |-> r.err]

\* lookup(key) into obj: Load, then LoadKey; not found leaves obj as it was
StoreGet(st, key, obj) ==
    IF key \in DOMAIN st
    THEN LoadKey(Load(obj, st[key]), key)
    ELSE [obj |-> obj, err |-> ErrNotFound]

MutKeys(muts) == {muts[i].key : i \in 1..Len(muts)}

\* ------------------------------------------------------ caller callbacks
\* The update functions and create-fallbacks a caller may pass.
UpdateFuncs == {"inc", "abort", "error", "rekey"}
CreateFuncs == {Nil, "new", "error", "rekey"}

OtherID(id) == (id % MaxID) + 1

\* "inc" adds 1 to the payload (callers only pass it below MaxVal), "abort"
\* changes the payload and signals ErrUpdateAbort, "error" fails, "rekey"
\* changes the identity.
CallUpdate(f, eo) ==
    CASE f = "inc"   -> [obj |-> [eo EXCEPT !.RealData = eo.RealData + 1], err |-> Nil]
      [] f = "abort" -> [obj |-> [eo EXCEPT !.RealData = 0], err |-> ErrUpdateAbort]
      [] f = "error" -> [obj |-> eo, err |-> customError]
      [] f = "rekey" -> [obj |-> [eo EXCEPT !.ID = OtherID(eo.ID)], err |-> Nil]

\* a new entity of the type of eo: the callbacks take and return a T
NewLike(eo, id) ==
    [ExampleObj(id, 0) EXCEPT !.KeyLoader = eo.KeyLoader,
                              !.KeyBuilder = eo.KeyBuilder]

\* "new" returns &exampleObj{ID: eo.ID}
CallCreate(f, eo) ==
    CASE f = "new"   -> [obj |-> NewLike(eo, eo.ID), err |-> Nil]
      [] f = "error" -> [obj |-> eo, err |-> customError]
      [] f = "rekey" -> [obj |-> NewLike(eo, OtherID(eo.ID)), err |-> Nil]

\* ------------------------------------------------------------- UpdateTx
\* What one UpdateTx call returns and does: the entity and the error it
\* returns, the mutations it queued on the transaction, the keys it read
\* through the transaction, and the calls it made, in order.
Ret(obj, err, muts, reads, trace) ==
    [obj |-> obj, err |-> err, muts |-> muts, reads |-> reads, trace |-> trace]

\* tx.Get(key, obj): a lookup through the transaction
TxGet(st, key, obj) == StoreGet(st, key, obj)

\* the keys the transaction records as read by tx.Get(key, obj)
TxReadsNone(key) == {}

TxReads(key) == {key}

\* errors.Is(err, ErrUpdateAbort)
IsAbortNever(err) == FALSE

IsAbort(err) == err = ErrUpdateAbort

\* the key re-derived from the create-fallback's entity is the original key
CreatedKeyUnchecked(key, obj) == TRUE

CreatedKeyUnchanged(key, obj) == cmpKey(key, BuildKey(obj, namespace))

\* the key re-derived from the update function's entity is the original key
UpdatedKeyUnchecked(key, obj) == TRUE

UpdatedKeyUnchanged(key, obj) == cmpKey(key, BuildKey(obj, namespace))

\* a bug: the mutation is an update even for an entity just created
UpdateMutationUpdates(created, key, obj) == NewUpdate(key, obj)

\* a bug: the mutation writes the entity whether or not the key is present
UpdateMutationUpserts(created, key, obj) == NewUpsert(key, obj)

\* an insert for an entity the create-fallback made, an update otherwise
UpdateMutation(created, key, obj) ==
    IF created THEN NewInsert(key, obj) ELSE NewUpdate(key, obj)

\* the update function, the second key check, the mutation
UpdateTxTail(key, cur, created, updateFunc, trace) ==
    LET u == CallUpdate(updateFunc, cur)
        tr == Append(trace, "updateFunc")
    IN IF IsAbort(u.err) THEN Ret(u.obj, Nil, <<>>, TxReads(key), tr)
       ELSE IF u.err # Nil THEN Ret(u.obj, u.err, <<>>, TxReads(key), tr)
       ELSE IF BuildKeyErr(u.obj) # Nil
       THEN Ret(u.obj, BuildKeyErr(u.obj), <<>>, TxReads(key), tr)
       ELSE IF ~UpdatedKeyUnchanged(key, u.obj)
       THEN Ret(u.obj, ErrKeyChanged, <<>>, TxReads(key), tr)
       ELSE Ret(SaveObj(u.obj), Nil,
                <<UpdateMutation(created, key, u.obj)>>,
                TxReads(key), Append(tr, "Mutate"))

\* a bug: a missing entity with no create-fallback is updated from the empty
\* entity and inserted
UpdateTxNotFoundInserts(key, obj, err, updateFunc, createFunc) ==
    IF createFunc = Nil
    THEN UpdateTxTail(key, obj, TRUE, updateFunc, <<"Get">>)
    ELSE Ret(obj, err, <<>>, TxReads(key), <<"Get">>)

\* a bug: the error of the create-fallback is dropped
CreateFailedNever(err) == FALSE

\* the create-fallback returned an error
CreateFailed(err) == err # Nil

\* the read reported ErrNoSuchEntity: the create-fallback and its key check
UpdateTxNotFound(key, obj, err, updateFunc, createFunc) ==
    IF createFunc = Nil
    THEN Ret(obj, err, <<>>, TxReads(key), <<"Get">>)
    ELSE LET c == CallCreate(createFunc, obj)
             tr == <<"Get", "createFunc">>
         IN IF CreateFailed(c.err) THEN Ret(c.obj, c.err, <<>>, TxReads(key), tr)
            ELSE IF BuildKeyErr(c.obj) # Nil
            THEN Ret(c.obj, BuildKeyErr(c.obj), <<>>, TxReads(key), tr)
            ELSE IF ~CreatedKeyUnchanged(key, c.obj)
            THEN Ret(c.obj, ErrKeyChanged, <<>>, TxReads(key), tr)
            ELSE UpdateTxTail(key, c.obj, TRUE, updateFunc, tr)

\* a bug: the create-fallback is called whatever the read reported
UpdateTxCreatesAlways(st, obj, updateFunc, createFunc) ==
    LET key == BuildKey(obj, namespace)
        got == TxGet(st, key, obj)
    IN UpdateTxNotFound(key, got.obj, got.err, updateFunc, createFunc)

UpdateTx(st, obj, updateFunc, createFunc) ==
    LET key == BuildKey(obj, namespace)
        got == TxGet(st, key, obj)
    IN IF BuildKeyErr(obj) # Nil
       THEN Ret(obj, BuildKeyErr(obj), <<>>, {}, <<>>)
       ELSE IF got.err = ErrNotFound
       THEN UpdateTxNotFound(key, got.obj, got.err, updateFunc, createFunc)
       ELSE UpdateTxTail(key, got.obj, FALSE, updateFunc, <<"Get">>)

\* ------------------------------------------------------- batch operators
buildKeysOfFirst(objs) == [i \in 1..Len(objs) |-> BuildKey(objs[1], namespace)]

buildKeys(objs) == [i \in 1..Len(objs) |-> BuildKey(objs[i], namespace)]

\* buildKeys returns the error of the first entity whose BuildKey fails
buildKeysErr(objs) ==
    LET bad == {i \in 1..Len(objs) : BuildKeyErr(objs[i]) # Nil}
    IN IF bad = {} THEN Nil
       ELSE BuildKeyErr(objs[CHOOSE i \in bad : \A j \in bad : i <= j])

\* BatchCreateTx / BatchPutTx queue one mutation per entity, in order
BatchCreateTx(objs) ==
    LET keys == buildKeys(objs)
    IN IF buildKeysErr(objs) # Nil
       THEN [muts |-> <<>>, objs |-> objs, err |-> buildKeysErr(objs)]
       ELSE [muts |-> [i \in 1..Len(objs) |-> NewInsert(keys[i], objs[i])],
             objs |-> [i \in 1..Len(objs) |-> SaveObj(objs[i])],
             err |-> Nil]

BatchPutTx(objs) ==
    LET keys == buildKeys(objs)
    IN IF buildKeysErr(objs) # Nil
       THEN [muts |-> <<>>, objs |-> objs, err |-> buildKeysErr(objs)]
       ELSE [muts |-> [i \in 1..Len(objs) |-> NewUpsert(keys[i], objs[i])],
             objs |-> [i \in 1..Len(objs) |-> SaveObj(objs[i])],
             err |-> Nil]

\* BatchDeleteTx queues the delete of every key
BatchDeleteTx(objs) ==
    LET keys == buildKeys(objs)
    IN IF buildKeysErr(objs) # Nil
       THEN [muts |-> <<>>, objs |-> objs, err |-> buildKeysErr(objs)]
       ELSE [muts |-> [i \in 1..Len(objs) |-> NewDelete(keys[i])],
             objs |-> objs,
             err |-> Nil]

\* RunInTransaction around a function that only queues mutations: the
\* commit applies them all or fails; there is no read to conflict on.
\* a bug: each insert committed on its own, up to the first that fails
RECURSIVE ApplyEach(_, _)
ApplyEach(st, muts) ==
    IF muts = <<>> THEN [store |-> st, err |-> Nil]
    ELSE LET r == Mutate(st, <<Head(muts)>>)
         IN IF r.err # Nil THEN r ELSE ApplyEach(r.store, Tail(muts))

RunBatchCreateEach(st, objs) == ApplyEach(st, BatchCreateTx(objs).muts)

RunBatchCreate(st, objs) == Mutate(st, BatchCreateTx(objs).muts)

RunBatchPut(st, objs) == Mutate(st, BatchPutTx(objs).muts)

\* a bug: the resolution loop returns at the first hook that fails
RECURSIVE ResolveAllStops(_, _, _)
ResolveAllStops(keys, objs, i) ==
    IF i > Len(keys) THEN [objs |-> objs, err |-> Nil]
    ELSE LET r == ResolveKey(keys[i], objs[i])
         IN IF r.err # Nil THEN [objs |-> objs, err |-> r.err]
            ELSE ResolveAllStops(keys, [objs EXCEPT ![i] = r.obj], i + 1)

\* the resolution loop after the commit: every hook is tried, the last error kept
RECURSIVE ResolveAll(_, _, _)
ResolveAll(keys, objs, i) ==
    IF i > Len(keys) THEN [objs |-> objs, err |-> Nil]
    ELSE LET r == ResolveKey(keys[i], objs[i])
             rest == ResolveAll(keys, [objs EXCEPT ![i] = r.obj], i + 1)
         IN [objs |-> rest.objs,
             err |-> IF rest.err # Nil THEN rest.err ELSE r.err]

\* GetMulti: loads every entity that exists; reports the missing ones
GetMulti(st, keys, objs) ==
    [objs |-> [i \in 1..Len(objs) |-> StoreGet(st, keys[i], objs[i]).obj],
     err |-> IF \E i \in 1..Len(keys) : keys[i] \notin DOMAIN st
             THEN MultiError ELSE Nil]

\* ------------------------------------------------------------------- state
VARIABLES
    store,  \* the entities persisted: a function from the keys present to properties
    tx,     \* per caller, the transaction its Update has open
    last,   \* the call that returned last: arguments, results, what it did
    tally,  \* in the runs that keep one, the count of what Update returned
    registeredKinds,  \* the package's map of the kind names registered
    lock,             \* the package's mutex: the goroutine holding it, or NoHolder
    regs,             \* per goroutine, where it is in its call of RegisterKind
    kindLog           \* per name, the calls made, the calls that stored, the panics

vars == <<store, tx, last, tally, registeredKinds, lock, regs, kindLog>>
kindvars == <<registeredKinds, lock, regs, kindLog>>

\* status: idle, open (the transaction of an Update) or composed (a
\* transaction the caller runs UpdateTx in); reads: the keys read through the transaction; muts:
\* the mutations queued; stale: a key read was written since; obj: the entity
\* UpdateTx returned; arg, fns: the entity and the callbacks Update was called
\* with; trace: the calls made since Update was called.
IdleTx ==
    [status |-> "idle", reads |-> {}, muts |-> <<>>, stale |-> FALSE,
     obj |-> ZeroObj, arg |-> ZeroObj, fns |-> <<>>, trace |-> <<>>]

\* op: the operation; proc: the caller; args: the entities passed; pre: the
\* store when the call read or wrote it; keys: the keys derived from the arguments; objs: the
\* entities returned; rkeys: the keys returned; err: the error returned;
\* muts: the mutations the call issued; trace: the calls UpdateTx made;
\* fns: the callbacks passed; found: the result of Exists; done: whether the
\* surrounding operation has returned too.
Call(op, p, args, pre) ==
    [op |-> op, proc |-> p, args |-> args, pre |-> pre]

Last(c, keys, objs, rkeys, err, muts) ==
    [op |-> c.op, proc |-> c.proc, args |-> c.args, pre |-> c.pre,
     keys |-> keys, objs |-> objs, rkeys |-> rkeys, err |-> err,
     muts |-> muts, trace |-> <<>>, fns |-> <<>>, found |-> FALSE, done |-> TRUE]

\* the record l of a call that made the store calls listed
Did(calls, l) == [l EXCEPT !.trace = calls]

\* the record of a call that returned the error of BuildKey: no key, the
\* entities as they were passed, no store call
FailedLast(op, p, args, err) ==
    Last(Call(op, p, args, store), <<>>, args, <<>>, err, <<>>)

\* no call has returned that the caller has not taken the results of
NoCall == Last(Call("none", "", <<>>, <<>>), <<>>, <<>>, <<>>, Nil, <<>>)

WriteObjs == {ExampleObj(id, v) : id \in IDs, v \in Vals}
ReadObjs == {ExampleObj(id, 0) : id \in IDs}
Stores == UNION {[K -> PropsSet] : K \in SUBSET Keys}

\* a store the operations can produce: every entity sits at the key of its id
KeyedStores == {st \in Stores : \A k \in DOMAIN st : st[k].id = k[1].ID}

\* A committed write to a key invalidates every other open transaction that
\* has read the key.
MarkStale(t, p, written) ==
    [q \in Procs |->
        IF q # p /\ t[q].status # "idle" /\ t[q].reads \cap written # {}
        THEN [t[q] EXCEPT !.stale = TRUE] ELSE t[q]]

\* ------------------------------------------------------------ RegisterKind
\* The goroutines that call RegisterKind and the names they pass.
Goroutines == 1..MaxGo
KindNames == {"Test", "Other"}
NoHolder == 0

\* pc: "idle" outside a call, then "Lock", "check", "store", "Unlock" for the
\* statement the goroutine is about to run; name: the argument; panicking:
\* the call is unwinding a panic through its deferred Unlock.
IdleReg == [pc |-> "idle", name |-> "", panicking |-> FALSE]

KindsInit ==
    /\ registeredKinds = [n \in KindNames |-> FALSE]
    /\ lock = NoHolder
    /\ regs = [g \in Goroutines |-> IdleReg]
    /\ kindLog = [n \in KindNames |-> [calls |-> 0, ok |-> 0, panic |-> 0]]

RECURSIVE SumCalls(_)
SumCalls(N) ==
    IF N = {} THEN 0
    ELSE LET n == CHOOSE x \in N : TRUE IN kindLog[n].calls + SumCalls(N \ {n})

\* a bug: the mutex is taken whoever holds it
CanLockAlways(g) == TRUE

\* lock.Lock() goes on when no goroutine holds the mutex
CanLock(g) == lock = NoHolder

\* a bug: a name that is registered already is registered again
IsRegisteredNever(name) == FALSE

\* registeredKinds[name]: false for a name that is not in the map
IsRegistered(name) == registeredKinds[name]

\* a goroutine calls RegisterKind(name)
RegisterKind(g, name) ==
    /\ regs[g].pc = "idle"
    /\ SumCalls(KindNames) < MaxRegs
    /\ regs' = [regs EXCEPT ![g] = [pc |-> "Lock", name |-> name, panicking |-> FALSE]]
    /\ kindLog' = [kindLog EXCEPT ![name].calls = @ + 1]
    /\ UNCHANGED <<registeredKinds, lock, store, tx, last, tally>>

\* lock.Lock()
Lock(g) ==
    /\ regs[g].pc = "Lock"
    /\ CanLock(g)
    /\ lock' = g
    /\ regs' = [regs EXCEPT ![g].pc = "check"]
    /\ UNCHANGED <<registeredKinds, kindLog, store, tx, last, tally>>

\* if registeredKinds[name] { panic("kind already registered: " + name) }
CheckRegistered(g) ==
    /\ regs[g].pc = "check"
    /\ IF IsRegistered(regs[g].name)
       THEN /\ regs' = [regs EXCEPT ![g].pc = "Unlock", ![g].panicking = TRUE]
            /\ kindLog' = [kindLog EXCEPT ![regs[g].name].panic = @ + 1]
       ELSE /\ regs' = [regs EXCEPT ![g].pc = "store"]
            /\ kindLog' = kindLog
    /\ UNCHANGED <<registeredKinds, lock, store, tx, last, tally>>

\* registeredKinds[name] = true
StoreKind(g) ==
    /\ regs[g].pc = "store"
    /\ registeredKinds' = [registeredKinds EXCEPT ![regs[g].name] = TRUE]
    /\ regs' = [regs EXCEPT ![g].pc = "Unlock"]
    /\ kindLog' = [kindLog EXCEPT ![regs[g].name].ok = @ + 1]
    /\ UNCHANGED <<lock, store, tx, last, tally>>

\* defer lock.Unlock(): runs when the call returns and when it panics; the
\* caller recovers the panic and goes on
Unlock(g) ==
    /\ regs[g].pc = "Unlock"
    /\ lock' = NoHolder
    /\ regs' = [regs EXCEPT ![g] = IdleReg]
    /\ UNCHANGED <<registeredKinds, kindLog, store, tx, last, tally>>

\* on: whether this run keeps the tally; init: the store the run started
\* from; oks: per key, the number of Update calls that returned no error.
NoTally == [on |-> FALSE, init |-> <<>>, oks |-> [k \in Keys |-> 0]]

\* the tally after an Update of the entity at key has returned err
Tallied(h, key, err) ==
    IF h.on /\ err = Nil THEN [h EXCEPT !.oks[key] = @ + 1] ELSE h

Init ==
    /\ store \in KeyedStores
    /\ tx = [p \in Procs |-> IdleTx]
    /\ last = NoCall
    /\ tally = NoTally
    /\ KindsInit

\* The caller takes the results of the call that returned; the next call
\* starts after that.
Return ==
    /\ UNCHANGED kindvars
    /\ last.op # "none"
    /\ last' = NoCall
    /\ UNCHANGED <<store, tx, tally>>

\* ------------------------------------------------- single-entity operations
\* BuildKey failed: the operation returns the error and has done nothing
KeyFailure(op, p, args, err) ==
    /\ store' = store
    /\ tx' = tx
    /\ last' = FailedLast(op, p, args, err)

\* the mutation Create issues
CreateUpserts(key, obj) == NewUpsert(key, obj)

CreateMutation(key, obj) == NewInsert(key, obj)

Create(p, obj) ==
    /\ UNCHANGED kindvars
    /\ last = NoCall
    /\ UNCHANGED tally
    /\ tx[p].status = "idle"
    /\ IF BuildKeyErr(obj) # Nil
       THEN KeyFailure("Create", p, <<obj>>, BuildKeyErr(obj))
       ELSE LET key == BuildKey(obj, namespace)
                 mut == CreateMutation(key, obj)
                 saved == SaveObj(obj)
                 r == Mutate(store, <<mut>>)
                 res == ResolveKey(key, saved)
             IN IF r.err # Nil
                THEN /\ store' = store
                     /\ tx' = tx
                     /\ last' = Did(<<"Mutate">>, Last(Call("Create", p, <<obj>>, store), <<key>>, <<saved>>, <<>>, r.err, <<mut>>))
                ELSE /\ store' = r.store
                     /\ tx' = MarkStale(tx, p, {key})
                     /\ last' = Did(<<"Mutate">>, Last(Call("Create", p, <<obj>>, store), <<key>>, <<res.obj>>, <<key>>, res.err, <<mut>>))

\* a bug: Put issues an insert, which fails at a key that is present
PutInserts(key, obj) == NewInsert(key, obj)

\* db.Client.Put(ctx, key, obj) writes the entity whether or not the key is
\* present
PutMutation(key, obj) == NewUpsert(key, obj)

Put(p, obj) ==
    /\ UNCHANGED kindvars
    /\ last = NoCall
    /\ UNCHANGED tally
    /\ tx[p].status = "idle"
    /\ IF BuildKeyErr(obj) # Nil
       THEN KeyFailure("Put", p, <<obj>>, BuildKeyErr(obj))
       ELSE LET key == BuildKey(obj, namespace)
                 mut == PutMutation(key, obj)
                 saved == SaveObj(obj)
                 r == Mutate(store, <<mut>>)
                 res == ResolveKey(key, saved)
             IN IF r.err # Nil
                THEN /\ store' = store
                     /\ tx' = tx
                     /\ last' = Did(<<"Put">>, Last(Call("Put", p, <<obj>>, store), <<key>>, <<saved>>, <<>>, r.err, <<mut>>))
                ELSE /\ store' = r.store
                     /\ tx' = MarkStale(tx, p, {key})
                     /\ last' = Did(<<"Put">>, Last(Call("Put", p, <<obj>>, store), <<key>>, <<res.obj>>, <<key>>, res.err, <<mut>>))

Get(p, obj) ==
    /\ UNCHANGED kindvars
    /\ last = NoCall
    /\ tx[p].status = "idle"
    /\ IF BuildKeyErr(obj) # Nil
       THEN last' = FailedLast("Get", p, <<obj>>, FirstOfMulti(BuildKeyErr(obj)))
       ELSE LET key == BuildKey(obj, namespace)
                 r == StoreGet(store, key, obj)
             IN last' = Did(<<"Get">>, Last(Call("Get", p, <<obj>>, store), <<key>>, <<r.obj>>, <<>>, r.err, <<>>))
    /\ UNCHANGED <<store, tx, tally>>

\* a bug: Exists compares the number of keys found with the wrong limit
ExistsOfAny(keys) == Len(keys) >= 0

\* Exists reports whether the keys-only query found a key
ExistsOf(keys) == Len(keys) > 0

Exists(p, obj) ==
    /\ UNCHANGED kindvars
    /\ last = NoCall
    /\ tx[p].status = "idle"
    /\ IF BuildKeyErr(obj) # Nil
       THEN last' = FailedLast("Exists", p, <<obj>>, BuildKeyErr(obj))
       ELSE LET key == BuildKey(obj, namespace)
                 keys == IF key \in DOMAIN store THEN <<key>> ELSE <<>>
             IN last' = [Did(<<"GetAll">>, Last(Call("Exists", p, <<obj>>, store), <<key>>, <<obj>>, <<>>, Nil, <<>>))
                             EXCEPT !.found = ExistsOf(keys)]
    /\ UNCHANGED <<store, tx, tally>>

\* db.Client.Delete(ctx, key): the store's delete of a key that is absent
\* succeeds
DeleteStrict(st, key) ==
    IF key \in DOMAIN st THEN Mutate(st, <<NewDelete(key)>>)
    ELSE [store |-> st, err |-> ErrNotFound]

ClientDelete(st, key) == Mutate(st, <<NewDelete(key)>>)

Delete(p, obj) ==
    /\ UNCHANGED kindvars
    /\ last = NoCall
    /\ UNCHANGED tally
    /\ tx[p].status = "idle"
    /\ IF BuildKeyErr(obj) # Nil
       THEN KeyFailure("Delete", p, <<obj>>, BuildKeyErr(obj))
       ELSE LET key == BuildKey(obj, namespace)
                 mut == NewDelete(key)
                 r == ClientDelete(store, key)
             IN /\ store' = r.store
                /\ tx' = IF key \in DOMAIN store THEN MarkStale(tx, p, {key}) ELSE tx
                /\ last' = Did(<<"Delete">>, Last(Call("Delete", p, <<obj>>, store), <<key>>, <<obj>>, <<>>, r.err, <<mut>>))

\* ------------------------------------------------------------------ Update
\* a bug: UpdateTx writes its mutation to the store at once
ClientMutate(st, muts) == Mutate(st, muts).store

\* tx.Mutate(mut) queues the mutation: the store is as it was until the commit
TxMutate(st, muts) == st

\* Update, up to the return of UpdateTx inside RunInTransaction.  An error of
\* UpdateTx rolls the transaction back and is what Update returns; otherwise
\* the transaction stays open until its commit.
Update(p, obj, updateFunc, createFunc) ==
    /\ UNCHANGED kindvars
    /\ last = NoCall
    /\ UNCHANGED tally
    /\ tx[p].status = "idle"
    /\ LET key == BuildKey(obj, namespace)
           r == UpdateTx(store, obj, updateFunc, createFunc)
           l == [Last(Call("UpdateTx", p, <<obj>>, store),
                      IF BuildKeyErr(obj) # Nil THEN <<>> ELSE <<key>>,
                      <<r.obj>>, <<>>, r.err, r.muts)
                     EXCEPT !.trace = r.trace,
                            !.fns = <<updateFunc, createFunc>>,
                            !.done = r.err # Nil]
       IN /\ (updateFunc = "inc" /\ BuildKeyErr(obj) = Nil) =>
                 (key \in DOMAIN store => store[key].delegated_data < MaxVal)
          /\ last' = l
          /\ tx' = IF r.err # Nil THEN tx
                   ELSE [tx EXCEPT ![p] =
                            [status |-> "open", reads |-> r.reads,
                             muts |-> r.muts, stale |-> FALSE, obj |-> r.obj,
                             arg |-> obj, fns |-> <<updateFunc, createFunc>>,
                             trace |-> r.trace]]
          /\ store' = TxMutate(store, r.muts)

\* The commit of a transaction: a transaction that queued no mutation
\* commits as it is; one that wrote fails with ErrConcurrentTransaction when
\* a key it read was written since, and otherwise applies its mutations.
CommitResult(st, t) ==
    IF t.muts = <<>> THEN [store |-> st, err |-> Nil]
    ELSE IF t.stale THEN [store |-> st, err |-> ErrConcurrentTransaction]
    ELSE Mutate(st, t.muts)

\* a bug: Update runs its function again when the commit reports a conflict
RunAgainOnConflict(err, t) ==
    err = ErrConcurrentTransaction /\ Len(t.trace) <= MaxCalls

\* Update calls RunInTransaction once and returns its error, whatever it is
RunAgain(err, t) == FALSE

\* The function passed to RunInTransaction returned nil: commit, and Update
\* returns the entity with the commit's error.
UpdateCommit(p) ==
    /\ UNCHANGED kindvars
    /\ last = NoCall
    /\ tx[p].status = "open"
    /\ LET t == tx[p]
           r == CommitResult(store, t)
           again == UpdateTx(store, t.arg, t.fns[1], t.fns[2])
       IN IF RunAgain(r.err, t) /\ again.err = Nil
          THEN /\ store' = r.store
               /\ tx' = [tx EXCEPT ![p] =
                            [t EXCEPT !.reads = again.reads, !.muts = again.muts,
                                      !.stale = FALSE, !.obj = again.obj,
                                      !.trace = t.trace \o again.trace]]
               /\ last' = last
               /\ tally' = tally
          ELSE /\ store' = r.store
               /\ tx' = IF r.err = Nil
                        THEN MarkStale([tx EXCEPT ![p] = IdleTx], p, MutKeys(t.muts))
                        ELSE [tx EXCEPT ![p] = IdleTx]
               /\ last' = [Last(Call("Update", p, <<t.arg>>, store),
                                [i \in 1..Len(t.muts) |-> t.muts[i].key],
                                <<t.obj>>, <<>>, r.err, t.muts)
                               EXCEPT !.trace = t.trace, !.fns = t.fns]
               /\ tally' = Tallied(tally, BuildKey(t.arg, namespace), r.err)

\* ------------------------------------------- transactions of the caller
\* One UpdateTx call inside a transaction the caller runs with
\* RunInTransaction.  The caller's function returns the first error of an
\* UpdateTx, which rolls the transaction back; otherwise the mutation joins
\* those queued and the function goes on, or returns nil (TxCommit).  Of the
\* calls made, the transaction record keeps one entry for each UpdateTx.
TxUpdateTx(p, obj, updateFunc, createFunc) ==
    /\ UNCHANGED kindvars
    /\ last = NoCall
    /\ UNCHANGED tally
    /\ tx[p].status \in {"idle", "composed"}
    /\ LET t == tx[p]
           n == Len(t.trace)
           key == BuildKey(obj, namespace)
           r == UpdateTx(store, obj, updateFunc, createFunc)
           l == [Last(Call("TxUpdateTx", p, <<obj>>, store),
                      IF BuildKeyErr(obj) # Nil THEN <<>> ELSE <<key>>,
                      <<r.obj>>, <<>>, r.err, r.muts)
                     EXCEPT !.trace = r.trace,
                            !.fns = <<updateFunc, createFunc>>,
                            !.done = r.err # Nil]
       IN /\ n < MaxTxOps
          /\ (updateFunc = "inc" /\ BuildKeyErr(obj) = Nil) =>
                 (key \in DOMAIN store => store[key].delegated_data < MaxVal)
          /\ last' = l
          /\ tx' = IF r.err # Nil THEN [tx EXCEPT ![p] = IdleTx]
                   ELSE [tx EXCEPT ![p] =
                            [status |-> "composed", reads |-> t.reads \cup r.reads,
                             muts |-> t.muts \o r.muts, stale |-> t.stale,
                             obj |-> ZeroObj, arg |-> ZeroObj, fns |-> <<>>,
                             trace |-> Append(t.trace, "Get")]]
          /\ store' = TxMutate(store, r.muts)

\* The caller's function returned nil: RunInTransaction commits.
TxCommit(p) ==
    /\ UNCHANGED kindvars
    /\ last = NoCall
    /\ UNCHANGED tally
    /\ tx[p].status = "composed"
    /\ LET t == tx[p]
           r == CommitResult(store, t)
       IN /\ store' = r.store
          /\ tx' = IF r.err = Nil
                   THEN MarkStale([tx EXCEPT ![p] = IdleTx], p, MutKeys(t.muts))
                   ELSE [tx EXCEPT ![p] = IdleTx]
          /\ last' = [Last(Call("RunInTransaction", p, <<>>, store),
                           [i \in 1..Len(t.muts) |-> t.muts[i].key],
                           <<>>, <<>>, r.err, t.muts)
                          EXCEPT !.trace = t.trace]

\* --------------------------------------------------------- batch operations
\* BatchCreate: BatchCreateTx inside RunInTransaction, then the keys of the
\* commit and the resolution hooks.
BatchCreate(p, objs) ==
    /\ UNCHANGED kindvars
    /\ last = NoCall
    /\ UNCHANGED tally
    /\ tx[p].status = "idle"
    /\ LET keys == buildKeys(objs)
           b == BatchCreateTx(objs)
           r == RunBatchCreate(store, objs)
           res == ResolveAll(keys, b.objs, 1)
       IN IF b.err # Nil THEN KeyFailure("BatchCreate", p, objs, b.err)
          ELSE IF r.err # Nil
          THEN /\ store' = r.store
               /\ tx' = tx
               /\ last' = Did(<<"Mutate", "Commit">>, Last(Call("BatchCreate", p, objs, store), keys, b.objs, <<>>, r.err, b.muts))
          ELSE /\ store' = r.store
               /\ tx' = MarkStale(tx, p, Range(keys))
               /\ last' = Did(<<"Mutate", "Commit">>, Last(Call("BatchCreate", p, objs, store), keys, res.objs, keys, res.err, b.muts))

BatchPut(p, objs) ==
    /\ UNCHANGED kindvars
    /\ last = NoCall
    /\ UNCHANGED tally
    /\ tx[p].status = "idle"
    /\ LET keys == buildKeys(objs)
           b == BatchPutTx(objs)
           r == RunBatchPut(store, objs)
           res == ResolveAll(keys, b.objs, 1)
       IN IF b.err # Nil THEN KeyFailure("BatchPut", p, objs, b.err)
          ELSE IF r.err # Nil
          THEN /\ store' = r.store
               /\ tx' = tx
               /\ last' = Did(<<"Mutate", "Commit">>, Last(Call("BatchPut", p, objs, store), keys, b.objs, <<>>, r.err, b.muts))
          ELSE /\ store' = r.store
               /\ tx' = MarkStale(tx, p, Range(keys))
               /\ last' = Did(<<"Mutate", "Commit">>, Last(Call("BatchPut", p, objs, store), keys, res.objs, keys, res.err, b.muts))

\* what BatchGet returns from a store
BatchGetResult(st, objs) == GetMulti(st, buildKeys(objs), objs)

BatchGet(p, objs) ==
    /\ UNCHANGED kindvars
    /\ last = NoCall
    /\ tx[p].status = "idle"
    /\ LET keys == buildKeys(objs)
           r == BatchGetResult(store, objs)
       IN last' = IF buildKeysErr(objs) # Nil
                  THEN FailedLast("BatchGet", p, objs, buildKeysErr(objs))
                  ELSE Did(<<"GetMulti">>, Last(Call("BatchGet", p, objs, store), keys, r.objs, <<>>, r.err, <<>>))
    /\ UNCHANGED <<store, tx, tally>>

\* BatchDelete: BatchDeleteTx inside RunInTransaction; the commit deletes
\* every key, present or not.
BatchDelete(p, objs) ==
    /\ UNCHANGED kindvars
    /\ last = NoCall
    /\ UNCHANGED tally
    /\ tx[p].status = "idle"
    /\ LET keys == buildKeys(objs)
           b == BatchDeleteTx(objs)
           r == Mutate(store, b.muts)
       IN IF b.err # Nil THEN KeyFailure("BatchDelete", p, objs, b.err)
          ELSE /\ store' = r.store
               /\ tx' = MarkStale(tx, p, Range(keys) \cap DOMAIN store)
               /\ last' = Did(<<"DeleteMulti", "Commit">>,
                              Last(Call("BatchDelete", p, objs, store), keys, objs, <<>>, r.err, b.muts))

\* ----------------------------------------------------------- specifications
\* Spec: two callers running Update concurrently with each other and with
\* Put and Delete.
Next ==
    \/ \E p \in Procs, obj \in WriteObjs : Put(p, obj)
    \/ \E p \in Procs, obj \in ReadObjs : Delete(p, obj)
    \/ \E p \in Procs, obj \in ReadObjs, uf \in UpdateFuncs, cf \in CreateFuncs :
           Update(p, obj, uf, cf)
    \/ \E p \in Procs : UpdateCommit(p)
    \/ Return

Spec == Init /\ [][Next]_vars

\* SpecCrud: one caller running the single and batch operations, each of
\* which is one store call or one transaction of queued mutations.
Caller == CHOOSE p \in Procs : TRUE
Rival == CHOOSE p \in Procs : p # Caller

WriteBatches == SeqOfSet(WriteObjs, MaxBatch)
ReadBatches == SeqOfSet(ReadObjs, MaxBatch)

NextCrud ==
    \/ \E obj \in WriteObjs : Create(Caller, obj)
    \/ \E obj \in WriteObjs : Put(Caller, obj)
    \/ \E obj \in ReadObjs : Get(Caller, obj)
    \/ \E obj \in ReadObjs : Exists(Caller, obj)
    \/ \E obj \in ReadObjs : Delete(Caller, obj)
    \/ \E objs \in WriteBatches : BatchCreate(Caller, objs)
    \/ \E objs \in WriteBatches : BatchPut(Caller, objs)
    \/ \E objs \in ReadBatches : BatchGet(Caller, objs)
    \/ Return

SpecCrud == Init /\ [][NextCrud]_vars

\* One caller composes UpdateTx calls in a transaction of its own while a
\* second caller writes and deletes.
NextTx ==
    \/ \E obj \in ReadObjs, uf \in UpdateFuncs, cf \in CreateFuncs :
          TxUpdateTx(Caller, obj, uf, cf)
    \/ TxCommit(Caller)
    \/ \E obj \in WriteObjs : Put(Rival, obj)
    \/ \E obj \in ReadObjs : Delete(Rival, obj)
    \/ Return

SpecTx == Init /\ [][NextTx]_vars

\* SpecCounter: two callers running Update with the update function that
\* adds 1, on the entities the run starts with (Test97UpdateConflict), and
\* keeping the tally of the calls that returned no error.
InitCounter ==
    /\ store \in KeyedStores
    /\ tx = [p \in Procs |-> IdleTx]
    /\ last = NoCall
    /\ tally = [NoTally EXCEPT !.on = TRUE, !.init = store]
    /\ KindsInit

NextCounter ==
    \/ \E p \in Procs, obj \in ReadObjs : Update(p, obj, "inc", Nil)
    \/ \E p \in Procs : UpdateCommit(p)
    \/ Return

SpecCounter == InitCounter /\ [][NextCounter]_vars

\* SpecBadKey: one caller running every operation on entities of types whose
\* BuildKey may fail; the entities all carry the same payload, and the
\* batches mix entities whose BuildKey returns a key with entities whose
\* BuildKey returns a plain error.
KeyObjs == {KeyObj(id, MaxVal, rule) : id \in IDs, rule \in KeyBuilders}
KeyBatches ==
    SeqOfSet({KeyObj(id, MaxVal, rule) : id \in IDs, rule \in {"ok", "fail"}},
             MaxBatch)

NextBadKey ==
    \/ \E obj \in KeyObjs : Create(Caller, obj)
    \/ \E obj \in KeyObjs : Put(Caller, obj)
    \/ \E obj \in KeyObjs : Get(Caller, obj)
    \/ \E obj \in KeyObjs : Exists(Caller, obj)
    \/ \E obj \in KeyObjs : Delete(Caller, obj)
    \/ \E obj \in KeyObjs, uf \in {"abort", "rekey"}, cf \in CreateFuncs :
            Update(Caller, obj, uf, cf)
    \/ UpdateCommit(Caller)
    \/ \E objs \in KeyBatches : BatchCreate(Caller, objs)
    \/ \E objs \in KeyBatches : BatchPut(Caller, objs)
    \/ \E objs \in KeyBatches : BatchGet(Caller, objs)
    \/ \E objs \in KeyBatches : BatchDelete(Caller, objs)
    \/ Return

SpecBadKey == Init /\ [][NextBadKey]_vars

\* SpecKinds: goroutines calling RegisterKind at the same time, each call a
\* sequence of steps that interleave with the steps of the others.
InitKinds ==
    /\ KindsInit
    /\ store = <<>>
    /\ tx = [p \in Procs |-> IdleTx]
    /\ last = NoCall
    /\ tally = NoTally

NextKinds ==
    \/ \E g \in Goroutines, name \in KindNames : RegisterKind(g, name)
    \/ \E g \in Goroutines : Lock(g)
    \/ \E g \in Goroutines : CheckRegistered(g)
    \/ \E g \in Goroutines : StoreKind(g)
    \/ \E g \in Goroutines : Unlock(g)

SpecKinds == InitKinds /\ [][NextKinds]_vars

\* SpecHook: one caller running the batch writes on entities whose LoadKey
\* may fail; the entities all carry the same payload.
HookObjs == {HookObj(id, MaxVal, h) : id \in IDs, h \in Hooks}
HookBatches == SeqOfSet(HookObjs, MaxBatch)

NextHook ==
    \/ \E objs \in HookBatches : BatchCreate(Caller, objs)
    \/ \E objs \in HookBatches : BatchPut(Caller, objs)
    \/ Return

SpecHook == Init /\ [][NextHook]_vars

\* SpecKey: cmpKey applied to pairs of key chains.
KeyLevels ==
    {Level("Test", "Test", id, "") : id \in IDs}
        \cup {Level("Other", "Test", 1, ""), Level("Test", "Parent", 1, ""),
              Level("Test", "Test", 1, "n")}

KeyChains == SeqOfSet(KeyLevels, MaxDepth)

CmpKeyCall ==
    /\ UNCHANGED kindvars
    /\ last = NoCall
    /\ \E a \in KeyChains, b \in KeyChains :
          last' = [Last(Call("cmpKey", "", <<>>, <<>>), <<a, b>>, <<>>, <<>>, Nil, <<>>)
                      EXCEPT !.found = cmpKey(a, b)]
    /\ UNCHANGED <<store, tx, tally>>

InitKey ==
    /\ store = <<>>
    /\ tx = [p \in Procs |-> IdleTx]
    /\ last = NoCall
    /\ tally = NoTally
    /\ KindsInit

NextKey ==
    \/ CmpKeyCall
    \/ Return

SpecKey == InitKey /\ [][NextKey]_vars

\* SpecNS: the session derives the key of an entity whose own rule builds a
\* key under ancestors.  The rule "leaf" sets the namespace as exampleObj's
\* does (key.Namespace = ns), the rule "setns" as objKeepMissingKey's does
\* (SetNS(key, ns)).
KeyRules == {"leaf", "setns"}

ParentLevels ==
    {Level(ns, "Parent", id, "") : ns \in {"", namespace, "Other"}, id \in IDs}

ParentChains == SeqOfSet(ParentLevels, MaxDepth)

\* the entity's rule: BuildKey(ns) of an entity with identity id under parent
BuildKeyBy(rule, id, parent, ns) ==
    IF rule = "setns" THEN SetNS(IDKey("Test", id, parent), ns)
    ELSE WithNamespace(IDKey("Test", id, parent), ns)

\* a bug: the session stamps its namespace on every level of the key
DeriveKeyStamped(rule, id, parent) ==
    SetNS(BuildKeyBy(rule, id, parent, namespace), namespace)

\* key, err := obj.BuildKey(db.namespace): the key is used as returned
DeriveKey(rule, id, parent) == BuildKeyBy(rule, id, parent, namespace)

DeriveKeyCall ==
    /\ UNCHANGED kindvars
    /\ last = NoCall
    /\ \E rule \in KeyRules, id \in IDs, parent \in ParentChains \cup {<<>>} :
          last' = Last(Call("buildKeys", "", <<[rule |-> rule, id |-> id, parent |-> parent]>>, <<>>),
                       <<DeriveKey(rule, id, parent)>>, <<>>, <<>>, Nil, <<>>)
    /\ UNCHANGED <<store, tx, tally>>

NextNS ==
    \/ DeriveKeyCall
    \/ Return

SpecNS == InitKey /\ [][NextNS]_vars

\* ================================================================== claims
Other(p) == CHOOSE q \in Procs : q # p

\* a transaction that read an entity that exists and queued its update
Updating(p, key) ==
    /\ tx[p].status = "open"
    /\ tx[p].muts # <<>>
    /\ tx[p].muts[1].op = "update"
    /\ tx[p].muts[1].key = key

Overlap(p, q) ==
    /\ p # q
    /\ \E key \in Keys : Updating(p, key) /\ Updating(q, key)

\* The step property of C1: of two transactions that run the Update protocol on the same existing
\* key and overlap, exactly one commits and the other fails its commit with
\* ErrConcurrentTransaction: at most one of the two is already invalidated;
\* the commit of one that is not invalidated succeeds, stores its value and
\* invalidates the other; an invalidated transaction stays so while it is
\* open, and its commit fails with ErrConcurrentTransaction and writes nothing.
C1_Step ==
    \A p \in Procs :
        LET q == Other(p) IN
        /\ Overlap(p, q) => ~(tx[p].stale /\ tx[q].stale)
        /\ (Overlap(p, q) /\ ~tx[p].stale /\ tx'[p].status = "idle") =>
              /\ last'.op = "Update" /\ last'.proc = p /\ last'.err = Nil
              /\ store'[tx[p].muts[1].key] = tx[p].muts[1].props
              /\ tx'[q].status = "open" /\ tx'[q].stale
        /\ (tx[p].status = "open" /\ tx[p].stale /\ tx'[p].status = "open") =>
              tx'[p].stale
        /\ (tx[p].status = "open" /\ tx[p].stale /\ tx[p].muts # <<>>
                /\ tx'[p].status = "idle") =>
              /\ last'.op = "Update" /\ last'.proc = p
              /\ last'.err = ErrConcurrentTransaction
              /\ store' = store

OnlyChangedAt(pre, post, keyset) ==
    /\ DOMAIN post \ keyset = DOMAIN pre \ keyset
    /\ \A k \in DOMAIN pre \ keyset : post[k] = pre[k]

\* C2: Create at a key that is absent succeeds and stores the entity; Create
\* at a key that is present returns AlreadyExists and leaves the store, that
\* key and every other, as it was.
C2_CreateExactlyOnce ==
    last.op = "Create" =>
        LET key == last.keys[1] IN
        IF key \in DOMAIN last.pre
        THEN last.err = ErrAlreadyExists /\ store = last.pre
        ELSE /\ last.err = Nil
             /\ key \in DOMAIN store
             /\ store[key] = [id |-> last.args[1].ID,
                              delegated_data |-> last.args[1].RealData]
             /\ OnlyChangedAt(last.pre, store, {key})

C2_Witness ==
    /\ last.op = "Create" /\ last.err = ErrAlreadyExists
    /\ last.keys[1] \in DOMAIN store
    /\ store[last.keys[1]].delegated_data # last.args[1].RealData

\* C3: Delete returns no error whether or not the key is present; afterwards
\* the key is absent and every other key is as it was, so Delete of an absent
\* key changes nothing and a second Delete leaves the state of the first; a
\* Get of an absent key returns ErrNoSuchEntity.
C3_DeleteIdempotent ==
    /\ last.op = "Delete" =>
          /\ last.err = Nil
          /\ last.keys[1] \notin DOMAIN store
          /\ OnlyChangedAt(last.pre, store, {last.keys[1]})
          /\ last.keys[1] \notin DOMAIN last.pre => store = last.pre
    /\ (last.op = "Get" /\ last.keys[1] \notin DOMAIN last.pre) =>
          last.err = ErrNotFound

\* a Delete of a key that was already absent has returned
C3_Witness ==
    /\ last.op = "Delete" /\ last.err = Nil
    /\ last.keys[1] \notin DOMAIN last.pre
    /\ store = last.pre

\* the caller's Update has returned and left no transaction open
Returned == last.done /\ tx[last.proc].status = "idle"

Invoked(f) == f \in Range(last.trace)

\* C4: UpdateTx for a key that is absent, with a create-fallback that returns
\* an entity of another key, fails with ErrKeyChanged, does not invoke the
\* update function, issues no mutation and persists nothing.
C4_CreateFallbackKeyStable ==
    (/\ last.op = "UpdateTx"
     /\ last.keys[1] \notin DOMAIN last.pre
     /\ last.fns[2] # Nil
     /\ CallCreate(last.fns[2], last.args[1]).err = Nil
     /\ ~cmpKey(last.keys[1],
                BuildKey(CallCreate(last.fns[2], last.args[1]).obj, namespace)))
    => /\ last.err = ErrKeyChanged
       /\ ~Invoked("updateFunc")
       /\ last.muts = <<>>
       /\ Returned
       /\ store = last.pre

C4_Witness ==
    /\ last.op = "UpdateTx" /\ last.err = ErrKeyChanged
    /\ last.trace = <<"Get", "createFunc">>
    /\ BuildKey(last.objs[1], namespace) # last.keys[1]

\* C5: when the update function signals ErrUpdateAbort, after the entity was
\* found or after the create-fallback, UpdateTx returns no error and issues
\* no mutation, and Update commits nothing, returns no error and leaves the
\* store as it was.
C5_AbortIsNoOp ==
    /\ (last.op = "UpdateTx" /\ Invoked("updateFunc") /\ last.fns[1] = "abort") =>
          /\ last.err = Nil
          /\ last.muts = <<>>
          /\ store = last.pre
          /\ tx[last.proc].status = "open" /\ tx[last.proc].muts = <<>>
    /\ (last.op = "Update" /\ last.muts = <<>>) =>
          /\ last.err = Nil
          /\ store = last.pre

\* the abort came after the create-fallback
C5_Witness ==
    /\ last.op = "UpdateTx" /\ last.fns[1] = "abort"
    /\ last.trace = <<"Get", "createFunc", "updateFunc">>
    /\ last.err = Nil

\* the update function returns an error or the abort signal
UpdateFails(f) == CallUpdate(f, ZeroObj).err # Nil

\* C6: when the update function returns an entity of another key, UpdateTx
\* fails with ErrKeyChanged and issues no mutation; every mutation UpdateTx
\* issues targets the key derived at the start and carries an entity of that
\* key, so every stored entity sits at the key of its identity.
C6_KeyNeverDrifts ==
    /\ last.op = "UpdateTx" =>
          /\ (Invoked("updateFunc") /\ ~UpdateFails(last.fns[1])
                  /\ ~cmpKey(last.keys[1], BuildKey(last.objs[1], namespace)))
                => last.err = ErrKeyChanged /\ last.muts = <<>>
          /\ \A i \in 1..Len(last.muts) :
                /\ last.muts[i].key = last.keys[1]
                /\ last.muts[i].props.id = last.keys[1][1].ID
    /\ \A k \in DOMAIN store : store[k].id = k[1].ID

C6_Witness ==
    /\ last.op = "UpdateTx" /\ last.fns[1] = "rekey"
    /\ Invoked("updateFunc")
    /\ last.err = ErrKeyChanged
    /\ BuildKey(last.objs[1], namespace) # last.keys[1]

\* C7: UpdateTx for a key that is absent, with no create-fallback, fails with
\* ErrNoSuchEntity, does not invoke the update function and persists nothing.
C7_NotFoundWithoutFallback ==
    (/\ last.op = "UpdateTx"
     /\ last.keys[1] \notin DOMAIN last.pre
     /\ last.fns[2] = Nil)
    => /\ last.err = ErrNotFound
       /\ last.trace = <<"Get">>
       /\ last.muts = <<>>
       /\ Returned
       /\ store = last.pre

C7_Witness ==
    /\ last.op = "UpdateTx" /\ last.fns[2] = Nil
    /\ last.err = ErrNotFound
    /\ last.keys[1] \notin DOMAIN store

Distinct(seq) == \A i, j \in 1..Len(seq) : i # j => seq[i] # seq[j]

\* C8: BatchCreate that returns an error has created none of its entities,
\* and it returns one when a key of the batch is present; BatchCreate that
\* returns no error has created them all.
C8_BatchCreateAllOrNothing ==
    last.op = "BatchCreate" =>
        /\ (\E i \in 1..Len(last.keys) : last.keys[i] \in DOMAIN last.pre) =>
              last.err # Nil
        /\ last.err # Nil => store = last.pre
        /\ last.err = Nil =>
              /\ \A i \in 1..Len(last.keys) :
                    /\ last.keys[i] \notin DOMAIN last.pre
                    /\ last.keys[i] \in DOMAIN store
                    /\ store[last.keys[i]] =
                          [id |-> last.args[i].ID,
                           delegated_data |-> last.args[i].RealData]
              /\ OnlyChangedAt(last.pre, store, Range(last.keys))

\* the batch failed on its second entity; the first was absent
C8_Witness ==
    /\ last.op = "BatchCreate" /\ last.err # Nil
    /\ Len(last.keys) >= 2
    /\ last.keys[1] \notin DOMAIN last.pre
    /\ last.keys[2] \in DOMAIN last.pre
    /\ last.keys[1] \notin DOMAIN store

\* the entities a caller passes to read back what it wrote: the identifiers
FreshOf(objs) == [i \in 1..Len(objs) |-> ExampleObj(objs[i].ID, 0)]

\* C9: after BatchCreate or BatchPut of entities with distinct identifiers
\* succeeds, the i-th key returned is the key of the i-th entity and was
\* passed to its resolution hook, and BatchGet of the identifiers returns no
\* error and, position by position, the identity and payload written.
C9_BatchRoundTrip ==
    (/\ last.op \in {"BatchCreate", "BatchPut"}
     /\ last.err = Nil
     /\ Distinct([i \in 1..Len(last.args) |-> last.args[i].ID]))
    => LET got == BatchGetResult(store, FreshOf(last.args)) IN
       /\ Len(last.rkeys) = Len(last.args)
       /\ got.err = Nil
       /\ \A i \in 1..Len(last.args) :
             /\ last.rkeys[i] = <<Level(namespace, "Test", last.args[i].ID, "")>>
             /\ last.objs[i].LoadedKey = last.rkeys[i][1].ID
             /\ got.objs[i].ID = last.args[i].ID
             /\ got.objs[i].RealData = last.args[i].RealData
             /\ got.objs[i] = last.objs[i]

\* a batch of two entities with different payloads was put
C9_Witness ==
    /\ last.op = "BatchPut" /\ last.err = Nil
    /\ Len(last.args) = 2
    /\ last.args[1].ID # last.args[2].ID
    /\ last.args[1].RealData # last.args[2].RealData

\* two chains have the same length and the same fields at every level
SameChain(a, b) ==
    /\ Len(a) = Len(b)
    /\ \A i \in 1..Len(a) :
          /\ a[i].Namespace = b[i].Namespace
          /\ a[i].Kind = b[i].Kind
          /\ a[i].ID = b[i].ID
          /\ a[i].Name = b[i].Name

\* C10: cmpKey(a, b) is true exactly when the chains of a and b have the same
\* length and the same namespace, kind, identifier and name at every level;
\* it is reflexive and symmetric, and false between a key and the same key
\* with one more ancestor.
C10_CmpKey ==
    last.op = "cmpKey" =>
        LET a == last.keys[1]
            b == last.keys[2]
        IN /\ last.found = SameChain(a, b)
           /\ cmpKey(a, a)
           /\ cmpKey(b, a) = last.found
           /\ \A l \in KeyLevels :
                 ~cmpKey(a, a \o <<l>>) /\ ~cmpKey(a \o <<l>>, a)

\* two chains that agree on the leaf and differ in length were compared
C10_Witness ==
    /\ last.op = "cmpKey"
    /\ Len(last.keys[1]) = 1 /\ Len(last.keys[2]) = 2
    /\ last.keys[1][1] = last.keys[2][1]
    /\ ~last.found


\* the number of times x occurs in seq
Count(seq, x) == Cardinality({i \in 1..Len(seq) : seq[i] = x})

\* within one call every callback ran at most once
CalledAtMostOnce(trace) ==
    Count(trace, "updateFunc") <= 1 /\ Count(trace, "createFunc") <= 1

\* The step property of C11. When the transaction of an Update that has
\* queued a mutation was invalidated by another caller's commit, the next
\* step of that Update is its return: it returns ErrConcurrentTransaction,
\* its transaction is over and nothing is written; and whenever an Update is
\* under way or returns, its update function and its create function have
\* each been called at most once since it was called.
C11_Step ==
    /\ \A p \in Procs :
          /\ tx'[p].status = "open" => CalledAtMostOnce(tx'[p].trace)
          /\ (tx[p].status = "open" /\ tx[p].stale /\ tx[p].muts # <<>>
                /\ tx'[p] # tx[p]) =>
                /\ tx'[p].status = "idle"
                /\ last'.op = "Update" /\ last'.proc = p
                /\ last'.err = ErrConcurrentTransaction
                /\ store' = store
    /\ last'.op \in {"Update", "UpdateTx"} => CalledAtMostOnce(last'.trace)

C12_PutOverwritesOrInserts ==
    last.op = "Put" =>
        LET key == last.keys[1]
            arg == last.args[1]
            got == StoreGet(store, key, ExampleObj(arg.ID, 0))
        IN /\ last.err = Nil
           /\ key = BuildKey(arg, namespace)
           /\ key \in DOMAIN store
           /\ store[key] = [id |-> arg.ID, delegated_data |-> arg.RealData]
           /\ got.err = Nil
           /\ got.obj.ID = arg.ID /\ got.obj.RealData = arg.RealData
           /\ OnlyChangedAt(last.pre, store, {key})

\* a Put has replaced a different value stored at its key
C12_Witness ==
    /\ last.op = "Put" /\ last.err = Nil
    /\ last.keys[1] \in DOMAIN last.pre
    /\ last.pre[last.keys[1]].delegated_data # last.args[1].RealData
    /\ store[last.keys[1]].delegated_data = last.args[1].RealData

\* C16: Exists reports true exactly when an entity is stored at the key
\* derived from its argument, reports false with no error when none is, and
\* never changes the store.
C16_ExistsIffStored ==
    last.op = "Exists" =>
        LET key == BuildKey(last.args[1], namespace) IN
        /\ last.keys[1] = key
        /\ last.found <=> key \in DOMAIN last.pre
        /\ last.err = Nil
        /\ store = last.pre

\* Exists has reported false, with no error, for a key that is absent while
\* another key is present
C16_Witness ==
    /\ last.op = "Exists" /\ ~last.found /\ last.err = Nil
    /\ last.keys[1] \notin DOMAIN store
    /\ DOMAIN store # {}


\* the properties Save persists for an entity
PropsOf(x) == [id |-> x.ID, delegated_data |-> x.RealData]

\* C17: an Update that succeeds and is not aborted issues exactly one
\* mutation: the insert of updateFunc(createFunc(entity)) when the read
\* reported not found and a create-fallback was given, the update of
\* updateFunc(stored value) otherwise; after the commit the value stored at
\* the key is the value Update returned.
C17_ExactlyOneMutation ==
    /\ (last.op = "UpdateTx" /\ last.err = Nil /\ Invoked("Mutate")) =>
          LET key == last.keys[1]
              arg == last.args[1]
              uf == last.fns[1]
              cf == last.fns[2]
              m == last.muts[1]
          IN /\ Len(last.muts) = 1
             /\ Count(last.trace, "Mutate") = 1
             /\ m.key = key
             /\ m.props = PropsOf(last.objs[1])
             /\ IF key \in DOMAIN last.pre
                THEN /\ m.op = "update"
                     /\ ~Invoked("createFunc")
                     /\ m.props =
                          PropsOf(CallUpdate(uf, StoreGet(last.pre, key, arg).obj).obj)
                ELSE /\ m.op = "insert"
                     /\ cf # Nil
                     /\ m.props =
                          PropsOf(CallUpdate(uf, CallCreate(cf, arg).obj).obj)
    /\ (last.op = "Update" /\ last.err = Nil /\ last.muts # <<>>) =>
          LET key == last.muts[1].key IN
          /\ Len(last.muts) = 1
          /\ key \in DOMAIN store
          /\ store[key] = PropsOf(last.objs[1])
          /\ OnlyChangedAt(last.pre, store, {key})

\* an Update that created the entity has committed its insert
C17_Witness ==
    /\ last.op = "Update" /\ last.err = Nil
    /\ last.muts # <<>> /\ last.muts[1].op = "insert"
    /\ store[last.muts[1].key] = PropsOf(last.objs[1])
    /\ last.muts[1].key \notin DOMAIN last.pre

\* C18: an error returned by the update function, other than the abort
\* signal, or by the create-fallback is what UpdateTx returns, unchanged; no
\* mutation is issued and the store is unchanged; after an error of the
\* create-fallback the update function is not called.
C18_CallbackErrorsPropagate ==
    last.op = "UpdateTx" =>
        LET arg == last.args[1]
            uf == last.fns[1]
            cf == last.fns[2]
            c == CallCreate(cf, arg)
        IN /\ (Invoked("createFunc") /\ c.err # Nil) =>
                 /\ last.err = c.err
                 /\ ~Invoked("updateFunc")
                 /\ last.muts = <<>>
                 /\ Returned
                 /\ store = last.pre
           /\ (Invoked("updateFunc") /\ UpdateFails(uf) /\ uf # "abort") =>
                 /\ last.err = customError
                 /\ last.muts = <<>>
                 /\ Returned
                 /\ store = last.pre

\* the create-fallback has failed for a key that is absent
C18_Witness ==
    /\ last.op = "UpdateTx" /\ last.fns[2] = "error"
    /\ last.keys[1] \notin DOMAIN store
    /\ last.err = customError
    /\ last.trace = <<"Get", "createFunc">>

\* the Update of p read the entity stored at key and queued its mutation
FoundAndQueued(p, key) ==
    /\ tx[p].status = "open"
    /\ tx[p].reads = {key}
    /\ tx[p].muts # <<>>
    /\ Count(tx[p].trace, "createFunc") = 0

\* C19: Update never resurrects a deleted record.  While an Update that
\* found its entity is open and the key has been deleted since, its
\* transaction is invalidated and the mutation it queued cannot be applied
\* to the store; when it returns, with the key absent just before its
\* commit, it returns an error and the key is still absent.
C19_NoResurrection ==
    /\ \A p \in Procs : \A key \in Keys :
          (FoundAndQueued(p, key) /\ key \notin DOMAIN store) =>
              /\ tx[p].stale
              /\ Mutate(store, tx[p].muts).err # Nil
    /\ (/\ last.op = "Update" /\ last.muts # <<>>
        /\ Count(last.trace, "createFunc") = 0
        /\ last.muts[1].key \notin DOMAIN last.pre) =>
          /\ last.err # Nil
          /\ tx[last.proc].status = "idle"
          /\ last.muts[1].key \notin DOMAIN store

\* an Update that found its entity has failed after a Delete of the key, and
\* the key is absent
C19_Witness ==
    /\ last.op = "Update" /\ last.err # Nil
    /\ last.muts # <<>> /\ last.muts[1].op = "update"
    /\ last.muts[1].key \notin DOMAIN store
    /\ last.muts[1].key \notin DOMAIN last.pre


\* the mutation queued last for the key of the i-th mutation
LastFor(muts, i) ==
    LET js == {j \in 1..Len(muts) : muts[j].key = muts[i].key}
    IN muts[CHOOSE j \in js : \A h \in js : h <= j]

\* C13: the UpdateTx calls a caller composes in one transaction are atomic.
\* No UpdateTx call changes the store by itself; when an UpdateTx returns an
\* error and the caller returns it, the transaction is over with nothing
\* queued and nothing applied; when the commit fails the store is as it was;
\* when the commit succeeds every queued update is applied and no other key
\* changes.
C13_ComposedUpdatesAtomic ==
    /\ last.op = "TxUpdateTx" =>
          /\ store = last.pre
          /\ last.err # Nil => tx[last.proc] = IdleTx
          /\ last.err = Nil =>
                /\ tx[last.proc].status = "composed"
                /\ \A i \in 1..Len(last.muts) :
                      \E j \in 1..Len(tx[last.proc].muts) :
                          tx[last.proc].muts[j] = last.muts[i]
    /\ last.op = "RunInTransaction" =>
          /\ tx[last.proc] = IdleTx
          /\ last.err # Nil => store = last.pre
          /\ last.err = Nil =>
                /\ \A i \in 1..Len(last.muts) :
                      /\ last.muts[i].key \in DOMAIN store
                      /\ store[last.muts[i].key] = LastFor(last.muts, i).props
                /\ OnlyChangedAt(last.pre, store, MutKeys(last.muts))

\* a transaction of two UpdateTx calls on two keys has committed both
C13_Witness ==
    /\ last.op = "RunInTransaction" /\ last.err = Nil
    /\ Len(last.muts) = 2
    /\ last.muts[1].key # last.muts[2].key
    /\ \A i \in 1..2 : store[last.muts[i].key] = last.muts[i].props
    /\ \A i \in 1..2 : last.muts[i].key \notin DOMAIN last.pre
                          \/ last.pre[last.muts[i].key] # last.muts[i].props


\* the positions of the entities whose LoadKey fails
Failing(objs) == {i \in 1..Len(objs) : objs[i].KeyLoader = "fail"}

\* the entity written last to the key of the i-th entity
LastAt(objs, i) ==
    LET js == {j \in 1..Len(objs) : objs[j].ID = objs[i].ID}
    IN objs[CHOOSE j \in js : \A h \in js : h <= j]

\* C14: after the commit of a BatchCreate or BatchPut key resolution is best
\* effort: whether or not the LoadKey of some entities fails, all entities
\* are persisted, LoadKey is attempted for every entity, all keys and all
\* entities are returned, and the error returned is the error of the last
\* entity whose LoadKey failed, or none when no LoadKey failed.
C14_ResolutionBestEffort ==
    (last.op \in {"BatchCreate", "BatchPut"} /\ last.rkeys # <<>>) =>
        LET args == last.args
            n == Len(args)
            failing == Failing(args)
        IN /\ \A i \in 1..n :
                 /\ last.keys[i] \in DOMAIN store
                 /\ store[last.keys[i]] = PropsOf(LastAt(args, i))
           /\ Len(last.rkeys) = n /\ Len(last.objs) = n
           /\ \A i \in 1..n :
                 /\ last.rkeys[i] = BuildKey(args[i], namespace)
                 /\ last.objs[i].ID = args[i].ID
                 /\ last.objs[i].RealData = args[i].RealData
                 /\ last.objs[i].LoadedKey =
                       IF i \in failing THEN 0 ELSE args[i].ID
           /\ last.err =
                 IF failing = {} THEN Nil
                 ELSE LoadKeyError(args[CHOOSE i \in failing :
                                            \A j \in failing : j <= i])

\* a batch of two was committed, the LoadKey of the first entity failed, the
\* LoadKey of the second was still called, and the first's error is returned
C14_Witness ==
    /\ last.op \in {"BatchCreate", "BatchPut"} /\ last.rkeys # <<>>
    /\ Len(last.args) = 2
    /\ Failing(last.args) = {1}
    /\ last.objs[2].LoadedKey = last.args[2].ID
    /\ last.err = LoadKeyError(last.args[1])
    /\ \A i \in 1..2 : last.keys[i] \in DOMAIN store


\* C15, as claimed: the key the session derives for an entity carries the
\* session's namespace at the leaf and at every ancestor level, whatever
\* namespace the entity's own rule put on the ancestors.
C15_NamespaceUniform ==
    last.op = "buildKeys" =>
        \A i \in 1..Len(last.keys[1]) : last.keys[1][i].Namespace = namespace

\* C15, amended: the session hands its namespace to the entity's own rule and
\* uses the key the rule returns as it is.  The leaf carries the session's
\* namespace under both rules; the ancestors carry it when the rule stamps
\* them with SetNS, and keep the namespaces they had when the rule sets the
\* namespace of the leaf only.
C15_NamespaceAsRuleStamps ==
    last.op = "buildKeys" =>
        LET e == last.args[1]
            key == last.keys[1]
        IN /\ Len(key) = Len(e.parent) + 1
           /\ key[1] = Level(namespace, "Test", e.id, "")
           /\ e.rule = "setns" =>
                 \A i \in 1..Len(key) : key[i].Namespace = namespace
           /\ e.rule = "leaf" => Parent(key) = e.parent
           /\ \A i \in 1..Len(e.parent) :
                 /\ key[i + 1].Kind = e.parent[i].Kind
                 /\ key[i + 1].ID = e.parent[i].ID
                 /\ key[i + 1].Name = e.parent[i].Name

\* the key derived under the leaf-only rule has the session's namespace at
\* the leaf and another namespace at its parent
C15_Witness ==
    /\ last.op = "buildKeys"
    /\ last.args[1].rule = "leaf"
    /\ Len(last.keys[1]) = 2
    /\ last.keys[1][1].Namespace = namespace
    /\ last.keys[1][2].Namespace = "Other"


\* every Update has returned
Quiescent == \A p \in Procs : tx[p].status = "idle"

\* C20: no update is lost: whatever the interleaving of the Update calls that
\* add 1 to the counter of an entity that exists, the counter stored is the
\* initial counter plus the number of Update calls on the key that have
\* returned without error; so it is once all calls have returned.
C20_NoLostUpdate ==
    tally.on =>
        /\ DOMAIN store = DOMAIN tally.init
        /\ \A key \in DOMAIN tally.init :
              store[key].delegated_data =
                  tally.init[key].delegated_data + tally.oks[key]
        /\ \A key \in Keys \ DOMAIN tally.init : tally.oks[key] = 0

\* of two Updates of one entity that overlapped one has returned without
\* error and the other with the conflict, all calls have returned, and the
\* counter stored is one more than at the start
C20_Witness ==
    /\ tally.on /\ Quiescent
    /\ last.op = "Update" /\ last.err = ErrConcurrentTransaction
    /\ LET key == last.muts[1].key
       IN /\ tally.oks[key] = 1
          /\ store[key].delegated_data = tally.init[key].delegated_data + 1
          /\ last.pre = store


\* the position of the call x in trace, 0 when it was not made
At(trace, x) ==
    IF x \in Range(trace) THEN CHOOSE i \in 1..Len(trace) : trace[i] = x
    ELSE 0

\* C21: within one UpdateTx call the steps go read, create-fallback, update
\* function, mutation.  The read comes first; the create-fallback is called
\* only when the read reported not found, never for an entity that exists;
\* the update function is called only after the read and, where it was
\* needed, the create-fallback and its key check have succeeded; the
\* mutation is issued only after the update function has returned without
\* error and both key checks have passed; each step is taken at most once.
C21_StepsInOrder ==
    last.op \in {"UpdateTx", "TxUpdateTx"} =>
        LET tr == last.trace
            key == last.keys[1]
            arg == last.args[1]
            found == key \in DOMAIN last.pre
            c == CallCreate(last.fns[2], arg)
            cur == IF found THEN StoreGet(last.pre, key, arg).obj ELSE c.obj
            u == CallUpdate(last.fns[1], cur)
        IN /\ tr # <<>> /\ tr[1] = "Get"
           /\ Range(tr) \subseteq {"Get", "createFunc", "updateFunc", "Mutate"}
           /\ \A x \in Range(tr) : Count(tr, x) = 1
           /\ Invoked("createFunc") =>
                 /\ ~found
                 /\ last.fns[2] # Nil
                 /\ At(tr, "createFunc") = At(tr, "Get") + 1
           /\ found => ~Invoked("createFunc")
           /\ Invoked("updateFunc") =>
                 /\ At(tr, "updateFunc") = Len(tr) - Count(tr, "Mutate")
                 /\ found \/ Invoked("createFunc")
                 /\ Invoked("createFunc") =>
                       /\ At(tr, "createFunc") < At(tr, "updateFunc")
                       /\ c.err = Nil
                       /\ cmpKey(key, BuildKey(c.obj, namespace))
           /\ Invoked("Mutate") =>
                 /\ At(tr, "Mutate") = Len(tr)
                 /\ Invoked("updateFunc")
                 /\ u.err = Nil
                 /\ cmpKey(key, BuildKey(u.obj, namespace))
                 /\ last.err = Nil /\ last.muts # <<>>
           /\ last.muts # <<>> => Invoked("Mutate")

\* an UpdateTx for a key that is absent has taken all four steps
C21_Witness ==
    /\ last.op = "UpdateTx"
    /\ last.trace = <<"Get", "createFunc", "updateFunc", "Mutate">>
    /\ last.keys[1] \notin DOMAIN last.pre
    /\ last.muts # <<>>

\* ------------------------------------------------------------------- C22
\* the entities of the call that returned whose BuildKey fails
BadArgs == {i \in 1..Len(last.args) : BuildKeyErr(last.args[i]) # Nil}

\* the call that returned issued no store read and no mutation, and left
\* the store as it was
NoEffect ==
    /\ last.trace = <<>>
    /\ last.muts = <<>>
    /\ store = last.pre

\* C22: when BuildKey fails for the entity of a single operation, or for an
\* entity of a batch operation, the operation returns that error (of the
\* first such entity of a batch), issues no store read and no mutation, and
\* leaves the store unchanged.
C22_KeyFailureSurfaced ==
    (last.op # "none" /\ BadArgs # {}) =>
        /\ last.err = buildKeysErr(last.args)
        /\ NoEffect

\* C22, without the error Get returns: every operation whose entity's
\* BuildKey fails has no effect and returns an error, and every operation
\* other than Get returns the error BuildKey returned; Get returns it too
\* unless it is a datastore.MultiError.
C22_KeyFailureNoEffect ==
    (last.op # "none" /\ BadArgs # {}) =>
        /\ NoEffect
        /\ last.err # Nil
        /\ (last.op # "Get" \/ last.args[1].KeyBuilder \notin {"multi", "empty"})
               => last.err = buildKeysErr(last.args)

\* a batch operation has returned the error of its second entity's BuildKey
C22_Witness ==
    /\ last.op = "BatchPut"
    /\ BadArgs = {2}
    /\ last.err = KeyError(last.args[2].ID)
    /\ BuildKey(last.args[1], namespace) \notin DOMAIN store

\* Get has returned the element of the MultiError its entity's BuildKey
\* returned
C22_GetUnwraps ==
    /\ last.op = "Get"
    /\ last.args[1].KeyBuilder = "multi"
    /\ last.err = KeyError(last.args[1].ID)

\* UpdateTx has read the store and then returned the error of the BuildKey
\* of the entity its create-fallback returned
C22_LateFailure ==
    /\ last.op = "UpdateTx"
    /\ BadArgs = {}
    /\ last.trace = <<"Get", "createFunc">>
    /\ last.err = KeyError(1)

\* ------------------------------------------------------------------- C23
\* no call of RegisterKind is under way
AllIdle == \A g \in Goroutines : regs[g].pc = "idle"

\* per name: at most one call stored it, it is registered exactly when a
\* call stored it, a call panicked only on a registered name, and once the
\* calls have all returned, one of the calls that passed the name stored it
\* and each of the others panicked
C23_OneAccepted ==
    \A n \in KindNames :
        /\ kindLog[n].ok <= 1
        /\ (kindLog[n].ok = 1) <=> registeredKinds[n]
        /\ kindLog[n].panic > 0 => registeredKinds[n]
        /\ AllIdle =>
              /\ kindLog[n].calls = kindLog[n].ok + kindLog[n].panic
              /\ kindLog[n].calls > 0 => kindLog[n].ok = 1

\* a step removes no name, and no step taken while a call is panicking
\* changes the set
C23_Step ==
    /\ \A n \in KindNames : registeredKinds[n] => registeredKinds'[n]
    /\ \A g \in Goroutines :
          (regs[g].panicking \/ regs'[g].panicking) =>
              registeredKinds' = registeredKinds

\* C23: in every interleaving of RegisterKind calls each name is accepted
\* by exactly one call and every other call with that name panics; the set
\* of registered names only grows, and a call that panics leaves it
\* unchanged.
C23_InsertOnce == []C23_OneAccepted /\ [][C23_Step]_vars

\* a call is panicking on a name that was accepted once, while another
\* goroutine's call with the same name waits for the mutex
C23_Witness ==
    \E g, h \in Goroutines :
        /\ g # h
        /\ regs[g].pc = "Unlock" /\ regs[g].panicking
        /\ regs[h].pc = "Lock" /\ regs[h].name = regs[g].name
        /\ kindLog[regs[g].name].ok = 1

====
